---- MODULE Spec2Model ----
(***************************************************************************)
(* RustChessAi (src/src/lib.rs): the move-selection engine                 *)
(* (stand_pat, quiescence_search, negamax_ab, choose_best_move_ab) and the *)
(* game loop that drives it (run_app and its UI handlers).                 *)
(*                                                                         *)
(* The board is the value type of the external `chess` crate.  It is       *)
(* modelled by what the program asks of it: piece_on, color_on,            *)
(* side_to_move, MoveGen::new_legal, make_move_new, checkers, status.      *)
(* Positions carry no castling right and no en-passant square; the game    *)
(* loop is explored for at most MaxPlies plies from the initial position,  *)
(* within which neither castling nor an en-passant capture is possible.    *)
(* The promotion screen can capture a king; what the crate does with a     *)
(* board without a king is not modelled: the game loop stops (KingLost).   *)
(***************************************************************************)
EXTENDS Integers, Sequences, FiniteSets, TLC

(***************************************************************************)
(* i32 arithmetic.  Negation wraps at i32::MIN (a release build; a debug   *)
(* build panics there).                                                    *)
(***************************************************************************)
I32_MAX == 2147483647
I32_MIN == -I32_MAX - 1
MATE == 1000000

Neg(x) == IF x = I32_MIN THEN I32_MIN ELSE -x
Times(color, x) == IF color = 1 THEN x ELSE Neg(x)
Max(a, b) == IF a >= b THEN a ELSE b

(***************************************************************************)
(* Squares, as chess::Square: index = 8 * rank + file, a1 = 0, h8 = 63.    *)
(***************************************************************************)
Squares == 0..63
get_rank(sq) == sq \div 8
get_file(sq) == sq % 8
make_square(rank, file) == rank * 8 + file
OnBoard(r, f) == r >= 0 /\ r <= 7 /\ f >= 0 /\ f <= 7
FILE_C == 2
FILE_G == 6

Colors == {"White", "Black"}
Opp(c) == IF c = "White" THEN "Black" ELSE "White"

piece_on(b, sq) == b.piece[sq]
color_on(b, sq) == b.color[sq]
side_to_move(b) == b.stm

KnightSteps == << <<-2,-1>>, <<-2,1>>, <<-1,-2>>, <<-1,2>>, <<1,-2>>, <<1,2>>, <<2,-1>>, <<2,1>> >>
KingSteps == << <<-1,-1>>, <<-1,0>>, <<-1,1>>, <<0,-1>>, <<0,1>>, <<1,-1>>, <<1,0>>, <<1,1>> >>
RookDirs == << <<-1,0>>, <<0,-1>>, <<0,1>>, <<1,0>> >>
BishopDirs == << <<-1,-1>>, <<-1,1>>, <<1,-1>>, <<1,1>> >>
PROMO_PIECES == << "Queen", "Rook", "Bishop", "Knight" >>

ChessMove(src, dst, promo) == [src |-> src, dst |-> dst, promo |-> promo]
NoMove == [src |-> -1, dst |-> -1, promo |-> "None"]

(***************************************************************************)
(* Attack detection.                                                       *)
(***************************************************************************)
RECURSIVE FirstOnRay(_, _, _, _, _)
FirstOnRay(b, r, f, dr, df) ==
    IF ~OnBoard(r + dr, f + df) THEN -1
    ELSE IF b.piece[make_square(r + dr, f + df)] # "None" THEN make_square(r + dr, f + df)
    ELSE FirstOnRay(b, r + dr, f + df, dr, df)

StepHits(b, sq, by, steps, kind) ==
    \E i \in 1..Len(steps) :
        LET r == get_rank(sq) + steps[i][1]
            f == get_file(sq) + steps[i][2]
        IN OnBoard(r, f) /\ b.piece[make_square(r, f)] = kind /\ b.color[make_square(r, f)] = by

RayHits(b, sq, by, dirs, kind) ==
    \E i \in 1..Len(dirs) :
        LET t == FirstOnRay(b, get_rank(sq), get_file(sq), dirs[i][1], dirs[i][2])
        IN t # -1 /\ b.color[t] = by /\ b.piece[t] \in {kind, "Queen"}

PawnHits(b, sq, by) ==
    LET r == get_rank(sq) + (IF by = "White" THEN -1 ELSE 1)
    IN \E df \in {-1, 1} :
        /\ OnBoard(r, get_file(sq) + df)
        /\ b.piece[make_square(r, get_file(sq) + df)] = "Pawn"
        /\ b.color[make_square(r, get_file(sq) + df)] = by

Attacked(b, sq, by) ==
    \/ StepHits(b, sq, by, KnightSteps, "Knight")
    \/ StepHits(b, sq, by, KingSteps, "King")
    \/ PawnHits(b, sq, by)
    \/ RayHits(b, sq, by, RookDirs, "Rook")
    \/ RayHits(b, sq, by, BishopDirs, "Bishop")

king_square(b, c) == b.king[c]

\* board.checkers().popcnt() > 0: the side to move is in check.
in_check(b) == Attacked(b, king_square(b, b.stm), Opp(b.stm))

(***************************************************************************)
(* Board::make_move_new: the piece on the source square goes to the        *)
(* destination (replaced by the promotion piece, if any), whatever stood   *)
(* there is taken, and the turn passes.                                    *)
(***************************************************************************)
make_move_new(b, mv) ==
    [piece |-> [b.piece EXCEPT ![mv.src] = "None",
                               ![mv.dst] = IF mv.promo # "None" THEN mv.promo ELSE b.piece[mv.src]],
     color |-> [b.color EXCEPT ![mv.src] = "None", ![mv.dst] = b.color[mv.src]],
     king  |-> IF b.piece[mv.src] = "King" /\ mv.promo = "None"
               THEN [b.king EXCEPT ![b.color[mv.src]] = mv.dst] ELSE b.king,
     stm   |-> Opp(b.stm)]

(***************************************************************************)
(* MoveGen::new_legal: the legal moves, in a fixed enumeration order (by   *)
(* source square, then by direction).                                      *)
(***************************************************************************)
RECURSIVE Slide(_, _, _, _, _, _)
Slide(b, src, r, f, dr, df) ==
    IF ~OnBoard(r + dr, f + df) THEN << >>
    ELSE LET t == make_square(r + dr, f + df) IN
         IF b.color[t] = "None"
         THEN << ChessMove(src, t, "None") >> \o Slide(b, src, r + dr, f + df, dr, df)
         ELSE IF b.color[t] = b.stm THEN << >>
         ELSE << ChessMove(src, t, "None") >>

RECURSIVE Slides(_, _, _, _)
Slides(b, src, dirs, i) ==
    IF i > Len(dirs) THEN << >>
    ELSE Slide(b, src, get_rank(src), get_file(src), dirs[i][1], dirs[i][2])
         \o Slides(b, src, dirs, i + 1)

RECURSIVE Steps(_, _, _, _)
Steps(b, src, steps, i) ==
    IF i > Len(steps) THEN << >>
    ELSE LET r == get_rank(src) + steps[i][1]
             f == get_file(src) + steps[i][2]
         IN (IF OnBoard(r, f) /\ b.color[make_square(r, f)] # b.stm
             THEN << ChessMove(src, make_square(r, f), "None") >> ELSE << >>)
            \o Steps(b, src, steps, i + 1)

PawnTo(src, dst) ==
    IF get_rank(dst) \in {0, 7}
    THEN [i \in 1..4 |-> ChessMove(src, dst, PROMO_PIECES[i])]
    ELSE << ChessMove(src, dst, "None") >>

PawnMoves(b, src) ==
    LET dir == IF b.stm = "White" THEN 1 ELSE -1
        r == get_rank(src)
        f == get_file(src)
        home == IF b.stm = "White" THEN 1 ELSE 6
        cap(df) == IF OnBoard(r + dir, f + df) /\ b.color[make_square(r + dir, f + df)] = Opp(b.stm)
                   THEN PawnTo(src, make_square(r + dir, f + df)) ELSE << >>
    IN IF ~OnBoard(r + dir, f) THEN << >>
       ELSE (IF b.piece[make_square(r + dir, f)] = "None"
             THEN PawnTo(src, make_square(r + dir, f)) \o
                  (IF r = home /\ b.piece[make_square(r + 2 * dir, f)] = "None"
                   THEN << ChessMove(src, make_square(r + 2 * dir, f), "None") >> ELSE << >>)
             ELSE << >>)
            \o cap(-1) \o cap(1)

PieceMoves(b, src) ==
    CASE b.piece[src] = "Pawn"   -> PawnMoves(b, src)
      [] b.piece[src] = "Knight" -> Steps(b, src, KnightSteps, 1)
      [] b.piece[src] = "King"   -> Steps(b, src, KingSteps, 1)
      [] b.piece[src] = "Rook"   -> Slides(b, src, RookDirs, 1)
      [] b.piece[src] = "Bishop" -> Slides(b, src, BishopDirs, 1)
      [] b.piece[src] = "Queen"  -> Slides(b, src, RookDirs, 1) \o Slides(b, src, BishopDirs, 1)
      [] OTHER -> << >>

\* The moves of the mover's pieces on the squares lo..hi, in square order.
RECURSIVE MovesRange(_, _, _)
MovesRange(b, lo, hi) ==
    IF lo > hi THEN << >>
    ELSE IF lo = hi THEN (IF b.color[lo] = b.stm THEN PieceMoves(b, lo) ELSE << >>)
    ELSE MovesRange(b, lo, (lo + hi) \div 2) \o MovesRange(b, (lo + hi) \div 2 + 1, hi)

PseudoMoves(b, sq) == MovesRange(b, sq, 63)

\* A move is legal when it does not leave the mover's own king attacked.
leaves_king_safe(b, mv) ==
    LET next == make_move_new(b, mv)
    IN ~Attacked(next, king_square(next, b.stm), Opp(b.stm))

\* MoveGen::new_legal.  The crate's iteration order is its own; the model lists the
\* moves by source square.
new_legal(b) == SelectSeq(PseudoMoves(b, 0), LAMBDA mv : leaves_king_safe(b, mv))

\* Board::legal
legal(b, mv) ==
    /\ mv.src \in Squares
    /\ b.color[mv.src] = b.stm
    /\ \E i \in 1..Len(PieceMoves(b, mv.src)) : PieceMoves(b, mv.src)[i] = mv
    /\ leaves_king_safe(b, mv)

has_legal_move(b) ==
    \E sq \in Squares :
        /\ b.color[sq] = b.stm
        /\ \E i \in 1..Len(PieceMoves(b, sq)) : leaves_king_safe(b, PieceMoves(b, sq)[i])

\* Board::status: the crate reports Ongoing, Stalemate or Checkmate.
status(b) ==
    IF has_legal_move(b) THEN "Ongoing"
    ELSE IF in_check(b) THEN "Checkmate" ELSE "Stalemate"

BackRank == << "Rook", "Knight", "Bishop", "Queen", "King", "Bishop", "Knight", "Rook" >>

\* Board::default(): the standard initial position.
DefaultBoard ==
    [piece |-> [sq \in Squares |->
                  IF get_rank(sq) \in {0, 7} THEN BackRank[get_file(sq) + 1]
                  ELSE IF get_rank(sq) \in {1, 6} THEN "Pawn" ELSE "None"],
     color |-> [sq \in Squares |->
                  IF get_rank(sq) <= 1 THEN "White"
                  ELSE IF get_rank(sq) >= 6 THEN "Black" ELSE "None"],
     king |-> [White |-> 4, Black |-> 60],
     stm |-> "White"]

(***************************************************************************)
(* stand_pat: the static evaluation used at the leaves.                    *)
(***************************************************************************)
WhiteMinorDeveloped(sq) == get_rank(sq) > 1
WhiteRookOffBackRank(sq) == get_rank(sq) > 0
BlackMinorDeveloped(sq) == get_rank(sq) < 6
BlackRookAdvanced(sq) == get_rank(sq) < 6
BlackRookOffBackRank(sq) == get_rank(sq) < 7
KingOnCastledFile(sq) == get_file(sq) = FILE_G \/ get_file(sq) = FILE_C

WhiteBonus(piece, sq) ==
    CASE piece \in {"Knight", "Bishop"} -> IF WhiteMinorDeveloped(sq) THEN 10 ELSE 0
      [] piece = "Rook" -> IF WhiteRookOffBackRank(sq) THEN 5 ELSE 0
      [] piece = "King" -> IF KingOnCastledFile(sq) THEN 20 ELSE 0
      [] OTHER -> 0

BlackBonus(piece, sq) ==
    CASE piece \in {"Knight", "Bishop"} -> IF BlackMinorDeveloped(sq) THEN -10 ELSE 0
      [] piece = "Rook" -> IF BlackRookOffBackRank(sq) THEN -5 ELSE 0
      [] piece = "King" -> IF KingOnCastledFile(sq) THEN -20 ELSE 0
      [] OTHER -> 0

SquareScore(board, sq) ==
    IF piece_on(board, sq) = "None" THEN 0
    ELSE IF color_on(board, sq) = "White" THEN WhiteBonus(piece_on(board, sq), sq)
    ELSE IF color_on(board, sq) = "Black" THEN BlackBonus(piece_on(board, sq), sq)
    ELSE 0

\* The `score` accumulated over ALL_SQUARES: White-positive.
RECURSIVE ScoreRange(_, _, _)
ScoreRange(board, lo, hi) ==
    IF lo > hi THEN 0
    ELSE IF lo = hi THEN SquareScore(board, lo)
    ELSE ScoreRange(board, lo, (lo + hi) \div 2) + ScoreRange(board, (lo + hi) \div 2 + 1, hi)

StaticScore(board, sq) == ScoreRange(board, sq, 63)

stand_pat(board, color) == Times(color, StaticScore(board, 0))

(***************************************************************************)
(* Move ordering: sort_by_key with the priority closure (a stable sort).   *)
(***************************************************************************)
is_capture(board, mv) == piece_on(board, mv.dst) # "None"
is_promotion(mv) == mv.promo # "None"
gives_check(board, mv) == in_check(make_move_new(board, mv))

priority(board, mv) ==
    (IF is_capture(board, mv) THEN -10000 ELSE 0)
    + (IF is_promotion(mv) THEN -8000 ELSE 0)
    + (IF gives_check(board, mv) THEN -5000 ELSE 0)

\* `e` inserted into the key-sorted `s` behind every element whose key is <= its own.
RECURSIVE InsertByKey(_, _, _, _)
InsertByKey(s, keys, e, k) ==
    IF s = << >> THEN << <<e>>, <<k>> >>
    ELSE IF keys[Len(keys)] <= k THEN << Append(s, e), Append(keys, k) >>
    ELSE LET rest == InsertByKey(SubSeq(s, 1, Len(s) - 1), SubSeq(keys, 1, Len(keys) - 1), e, k)
         IN << Append(rest[1], s[Len(s)]), Append(rest[2], keys[Len(keys)]) >>

RECURSIVE SortFrom(_, _, _, _, _)
SortFrom(board, moves, i, s, keys) ==
    IF i > Len(moves) THEN s
    ELSE LET r == InsertByKey(s, keys, moves[i], priority(board, moves[i]))
         IN SortFrom(board, moves, i + 1, r[1], r[2])

sort_by_key(board, moves) == SortFrom(board, moves, 1, << >>, << >>)

(***************************************************************************)
(* quiescence_search and negamax_ab.                                       *)
(***************************************************************************)
\* Every finished game scores as a mate.
TerminalScoreAllMate(st, color) == -color * MATE

TerminalScore(st, color) == IF st = "Checkmate" THEN -color * MATE ELSE 0

is_noisy(board, mv) == is_capture(board, mv) \/ is_promotion(mv)

\* The value quiescence_search returns when a score reaches beta.
FailSoft(score, beta) == score

FailHigh(score, beta) == beta

RECURSIVE quiescence_search(_, _, _, _)
RECURSIVE QuiescenceLoop(_, _, _, _, _, _)

QuiescenceLoop(board, captures, i, alpha, beta, color) ==
    IF i > Len(captures) THEN alpha
    ELSE LET next == make_move_new(board, captures[i])
             score == Neg(quiescence_search(next, Neg(beta), Neg(alpha), -color))
         IN IF score >= beta THEN FailHigh(score, beta)
            ELSE QuiescenceLoop(board, captures, i + 1, Max(alpha, score), beta, color)

quiescence_search(board, alpha, beta, color) ==
    LET st == status(board) IN
    IF st # "Ongoing" THEN TerminalScore(st, color)
    ELSE LET sp == stand_pat(board, color) IN
         IF sp >= beta THEN FailHigh(sp, beta)
         ELSE LET captures == sort_by_key(board,
                                SelectSeq(new_legal(board), LAMBDA mv : is_noisy(board, mv)))
              IN QuiescenceLoop(board, captures, 1, Max(alpha, sp), beta, color)

\* The value negamax_ab returns at the depth-0 horizon.
HorizonValue(board, alpha, beta, color) ==
    Times(color, quiescence_search(board, alpha, beta, color))

\* The remaining depth a child is searched with.
ChildDepthSkip(board, depth, mv) == depth - 2

ChildDepth(board, depth, mv) == depth - 1

\* The beta cutoff test of the move loop.
CutoffNever(alpha, beta) == FALSE

Cutoff(alpha, beta) == alpha >= beta

RECURSIVE negamax_ab(_, _, _, _, _)
RECURSIVE NegamaxLoop(_, _, _, _, _, _, _, _)

NegamaxLoop(board, depth, moves, i, alpha, beta, color, best_score) ==
    IF i > Len(moves) THEN best_score
    ELSE LET next == make_move_new(board, moves[i])
             score == Neg(negamax_ab(next, ChildDepth(board, depth, moves[i]),
                                     Neg(beta), Neg(alpha), -color))
         IN IF Cutoff(Max(alpha, score), beta) THEN Max(best_score, score)
            ELSE NegamaxLoop(board, depth, moves, i + 1, Max(alpha, score), beta, color,
                             Max(best_score, score))

negamax_ab(board, depth, alpha, beta, color) ==
    LET st == status(board) IN
    IF st # "Ongoing" THEN TerminalScore(st, color)
    ELSE IF depth = 0 THEN HorizonValue(board, alpha, beta, color)
    ELSE NegamaxLoop(board, depth, sort_by_key(board, new_legal(board)), 1,
                     alpha, beta, color, I32_MIN)

\* The perspective sign choose_best_move_ab derives from the side to move.
SideSign(board) == IF side_to_move(board) = "White" THEN 1 ELSE -1

\* The window of every root candidate.
RootAlphaMin == I32_MIN

RootAlpha == I32_MIN + 1
RootBeta == I32_MAX

\* The score choose_best_move_ab gives a root candidate.

RootScore(board, depth, mv) ==
    Neg(negamax_ab(make_move_new(board, mv), ChildDepth(board, depth, mv),
                   RootAlpha, RootBeta, -SideSign(board)))

(***************************************************************************)
(* choose_best_move_ab: the root loop.                                     *)
(***************************************************************************)
\* best_score starts at the top of the range: no score is ever above it.
BestScoreInitMax == I32_MAX

BestScoreInit == I32_MIN

Adopt(best, mv, score) ==
    IF score > best.score THEN [move |-> mv, score |-> score] ELSE best

RECURSIVE RootLoop(_, _, _, _, _)
RootLoop(board, depth, moves, i, best) ==
    IF i > Len(moves) THEN best
    ELSE RootLoop(board, depth, moves, i + 1,
                  Adopt(best, moves[i], RootScore(board, depth, moves[i])))

RootCandidates(board) == sort_by_key(board, new_legal(board))

\* None is NoMove.
choose_best_move_ab(board, depth) ==
    IF new_legal(board) = << >> THEN NoMove
    ELSE RootLoop(board, depth, RootCandidates(board), 1,
                  [move |-> NoMove, score |-> BestScoreInit]).move

(***************************************************************************)
(* The same search, recording what its calls receive and return.  A call   *)
(* yields its value together with: window_ok, every call below it was      *)
(* entered with alpha < beta; range_ok, every bound and score that was     *)
(* negated or multiplied by the sign was above i32::MIN, and no best_score *)
(* was returned at i32::MIN; depth_ok, every negamax_ab call had           *)
(* depth >= 0 and every child one ply less than its parent; noisy_only,    *)
(* every move quiescence_search applied was a capture or a promotion;      *)
(* qs_plies, the longest line of nested quiescence_search calls.  A call   *)
(* with a negative depth is recorded and not followed.                     *)
(***************************************************************************)
Log(v, win, rng, dep, noisy, plies, cut) ==
    [value |-> v, window_ok |-> win, range_ok |-> rng, depth_ok |-> dep,
     noisy_only |-> noisy, qs_plies |-> plies, cutoffs |-> cut]

InRange(x) == x >= I32_MIN + 1 /\ x <= I32_MAX

\* The record of a node after the call `c` made for its move `mv`.
Below(acc, c, alpha, beta, dep, noisy, plies) ==
    Log(0,
        acc.window_ok /\ c.window_ok,
        acc.range_ok /\ c.range_ok /\ InRange(alpha) /\ InRange(beta) /\ InRange(c.value),
        acc.depth_ok /\ c.depth_ok /\ dep,
        acc.noisy_only /\ c.noisy_only /\ noisy,
        Max(acc.qs_plies, plies),
        acc.cutoffs \/ c.cutoffs)

RECURSIVE quiescence_trace(_, _, _, _)
RECURSIVE QuiescenceTraceLoop(_, _, _, _, _, _, _)

QuiescenceTraceLoop(board, captures, i, alpha, beta, color, acc) ==
    IF i > Len(captures) THEN [acc EXCEPT !.value = alpha]
    ELSE LET next == make_move_new(board, captures[i])
             c == quiescence_trace(next, Neg(beta), Neg(alpha), -color)
             score == Neg(c.value)
             acc1 == Below(acc, c, alpha, beta, TRUE,
                           is_capture(board, captures[i]) \/ is_promotion(captures[i]),
                           c.qs_plies + 1)
         IN IF score >= beta THEN [acc1 EXCEPT !.value = FailHigh(score, beta)]
            ELSE QuiescenceTraceLoop(board, captures, i + 1, Max(alpha, score), beta,
                                     color, acc1)

quiescence_trace(board, alpha, beta, color) ==
    LET st == status(board)
        entry == Log(0, alpha < beta, TRUE, TRUE, TRUE, 0, FALSE)
    IN  IF st # "Ongoing" THEN [entry EXCEPT !.value = TerminalScore(st, color)]
        ELSE LET sp == stand_pat(board, color) IN
             IF sp >= beta THEN [entry EXCEPT !.value = FailHigh(sp, beta)]
             ELSE LET captures == sort_by_key(board,
                                    SelectSeq(new_legal(board), LAMBDA mv : is_noisy(board, mv)))
                  IN QuiescenceTraceLoop(board, captures, 1, Max(alpha, sp), beta, color, entry)

RECURSIVE negamax_trace(_, _, _, _, _)
RECURSIVE NegamaxTraceLoop(_, _, _, _, _, _, _, _, _)

NegamaxTraceLoop(board, depth, moves, i, alpha, beta, color, best_score, acc) ==
    IF i > Len(moves)
    THEN [acc EXCEPT !.value = best_score, !.range_ok = @ /\ best_score # I32_MIN]
    ELSE LET next == make_move_new(board, moves[i])
             d == ChildDepth(board, depth, moves[i])
             c == negamax_trace(next, d, Neg(beta), Neg(alpha), -color)
             score == Neg(c.value)
             acc1 == Below(acc, c, alpha, beta, d = depth - 1, TRUE, c.qs_plies)
         IN IF Cutoff(Max(alpha, score), beta)
            THEN [acc1 EXCEPT !.value = Max(best_score, score),
                              !.cutoffs = i < Len(moves) \/ @]
            ELSE NegamaxTraceLoop(board, depth, moves, i + 1, Max(alpha, score), beta,
                                  color, Max(best_score, score), acc1)

negamax_trace(board, depth, alpha, beta, color) ==
    LET st == status(board)
        entry == Log(0, alpha < beta, TRUE, depth >= 0, TRUE, 0, FALSE)
    IN  IF depth < 0 THEN entry
        ELSE IF st # "Ongoing" THEN [entry EXCEPT !.value = TerminalScore(st, color)]
        ELSE IF depth = 0
        THEN LET c == quiescence_trace(board, alpha, beta, color)
             IN [c EXCEPT !.value = Times(color, c.value),
                          !.range_ok = @ /\ InRange(c.value),
                          !.qs_plies = @ + 1]
        ELSE NegamaxTraceLoop(board, depth, sort_by_key(board, new_legal(board)), 1,
                              alpha, beta, color, I32_MIN, entry)

\* The call choose_best_move_ab makes for a root candidate.
RootTrace(board, depth, mv) ==
    LET d == ChildDepth(board, depth, mv)
        c == negamax_trace(make_move_new(board, mv), d, RootAlpha, RootBeta, -SideSign(board))
    IN  [c EXCEPT !.value = Neg(c.value),
                  !.range_ok = @ /\ InRange(c.value),
                  !.depth_ok = @ /\ d = depth - 1]

(***************************************************************************)
(* The unpruned reference search: the recursion of negamax_ab and          *)
(* quiescence_search with the same leaf scoring and the same move order,   *)
(* in which no sibling is skipped and no score is clipped to a window.     *)
(***************************************************************************)
RECURSIVE quiescence_full(_, _)
RECURSIVE QuiescenceFullLoop(_, _, _, _, _)

QuiescenceFullLoop(board, captures, i, best, color) ==
    IF i > Len(captures) THEN best
    ELSE QuiescenceFullLoop(board, captures, i + 1,
            Max(best, Neg(quiescence_full(make_move_new(board, captures[i]), -color))), color)

quiescence_full(board, color) ==
    LET st == status(board) IN
    IF st # "Ongoing" THEN TerminalScore(st, color)
    ELSE QuiescenceFullLoop(board,
            sort_by_key(board, SelectSeq(new_legal(board), LAMBDA mv : is_noisy(board, mv))),
            1, stand_pat(board, color), color)

RECURSIVE negamax_full(_, _, _)
RECURSIVE NegamaxFullLoop(_, _, _, _, _, _)

NegamaxFullLoop(board, depth, moves, i, color, best_score) ==
    IF i > Len(moves) THEN best_score
    ELSE NegamaxFullLoop(board, depth, moves, i + 1, color,
            Max(best_score, Neg(negamax_full(make_move_new(board, moves[i]), depth - 1, -color))))

negamax_full(board, depth, color) ==
    LET st == status(board) IN
    IF st # "Ongoing" THEN TerminalScore(st, color)
    ELSE IF depth = 0 THEN Times(color, quiescence_full(board, color))
    ELSE NegamaxFullLoop(board, depth, sort_by_key(board, new_legal(board)), 1, color, I32_MIN)

RECURSIVE RootLoopFull(_, _, _, _, _)
RootLoopFull(board, depth, moves, i, best) ==
    IF i > Len(moves) THEN best
    ELSE RootLoopFull(board, depth, moves, i + 1,
            Adopt(best, moves[i],
                  Neg(negamax_full(make_move_new(board, moves[i]), depth - 1, -SideSign(board)))))

choose_best_move_full(board, depth) ==
    IF new_legal(board) = << >> THEN NoMove
    ELSE RootLoopFull(board, depth, RootCandidates(board), 1,
                      [move |-> NoMove, score |-> I32_MIN]).move

(***************************************************************************)
(* The positions the search is run on: small legal positions without       *)
(* castling rights, among which are checkmates and stalemates of either    *)
(* side, quiet positions, and positions with captures and promotions.      *)
(* Squares are written by index (a1 = 0, b1 = 1, ..., h8 = 63).            *)
(***************************************************************************)
Position(pieces, stm) ==
    [piece |-> [sq \in Squares |-> IF \E p \in pieces : p[3] = sq
                                   THEN (CHOOSE p \in pieces : p[3] = sq)[1] ELSE "None"],
     color |-> [sq \in Squares |-> IF \E p \in pieces : p[3] = sq
                                   THEN (CHOOSE p \in pieces : p[3] = sq)[2] ELSE "None"],
     king  |-> [c \in Colors |->
                  IF \E p \in pieces : p[1] = "King" /\ p[2] = c
                  THEN (CHOOSE p \in pieces : p[1] = "King" /\ p[2] = c)[3] ELSE -1],
     stm   |-> stm]

WK(sq) == <<"King", "White", sq>>
BK(sq) == <<"King", "Black", sq>>

Setups ==
    { \* rook endings: mate, mate in one
      << {WK(41), BK(56), <<"Rook", "White", 63>>}, "Black" >>,
      << {WK(41), BK(56), <<"Rook", "White", 7>>}, "White" >>,
      << {WK(41), BK(56), <<"Rook", "White", 7>>}, "Black" >>,
      << {WK(0), BK(17), <<"Rook", "Black", 7>>}, "White" >>,
      << {WK(0), BK(17), <<"Rook", "Black", 63>>}, "Black" >>,
      << {WK(0), BK(17), <<"Rook", "Black", 63>>}, "White" >>,
      \* pawn endings: stalemate, promotion
      << {WK(41), BK(56), <<"Pawn", "White", 48>>}, "Black" >>,
      << {WK(41), BK(56), <<"Pawn", "White", 54>>}, "White" >>,
      << {WK(0), BK(17), <<"Pawn", "Black", 8>>}, "White" >>,
      << {WK(0), BK(16), <<"Pawn", "Black", 14>>, <<"Knight", "White", 18>>}, "Black" >>,
      << {WK(41), BK(56), <<"Rook", "White", 63>>, <<"Knight", "Black", 57>>}, "Black" >>,
      \* kings and minor pieces
      << {WK(4), BK(60)}, "White" >>,
      << {WK(4), BK(60)}, "Black" >>,
      << {WK(2), BK(60)}, "White" >>,
      << {WK(2), BK(60)}, "Black" >>,
      << {WK(4), BK(62)}, "Black" >>,
      << {WK(4), BK(60), <<"Knight", "White", 18>>, <<"Knight", "Black", 57>>}, "White" >>,
      << {WK(4), BK(60), <<"Knight", "White", 18>>, <<"Knight", "Black", 57>>}, "Black" >>,
      << {WK(41), BK(56), <<"Knight", "Black", 42>>}, "Black" >>,
      << {WK(41), BK(56), <<"Knight", "Black", 42>>}, "White" >>,
      << {WK(4), BK(60), <<"Bishop", "White", 2>>, <<"Rook", "Black", 63>>}, "Black" >>,
      \* a queen left undefended
      << {WK(4), BK(60), <<"Queen", "White", 40>>, <<"Knight", "Black", 57>>}, "Black" >>,
      << {WK(4), BK(60), <<"Queen", "Black", 16>>, <<"Knight", "White", 1>>}, "White" >> }

Family == { Position(s[1], s[2]) : s \in Setups }

TIME_LIMIT_MS == 500
MaxDepth == 2
MaxProbeDepth == 1

Windows == { <<I32_MIN + 1, I32_MAX>>, <<-50, 50>>, <<5, 30>>, <<-30, -5>> }
Signs == {1, -1}

(***************************************************************************)
(* State.  board, depth: the arguments of a choose_best_move_ab call.      *)
(* pc, moves, idx, best: the position in its root loop and its locals.     *)
(* elapsed: the wall-clock time since the call started, in ms, saturated   *)
(* at TIME_LIMIT_MS.  result: the value returned.  probe: a direct call of *)
(* negamax_ab, quiescence_search or stand_pat on board, and its value.     *)
(* state, game, history: the locals of run_app.  ai_call: the call of      *)
(* choose_best_move_ab made in the last frame, if any.                     *)
(***************************************************************************)
VARIABLES board, depth, pc, moves, idx, best, elapsed, result, probe,
          state, game, history, ai_call

searchVars == <<board, depth, pc, moves, idx, best, elapsed, result, probe>>
appVars == <<state, game, history, ai_call>>
vars == <<board, depth, pc, moves, idx, best, elapsed, result, probe,
          state, game, history, ai_call>>

NoProbe == [fn |-> "none", depth |-> 0, alpha |-> 0, beta |-> 0, color |-> 1, value |-> 0]
NoBest == [move |-> NoMove, score |-> BestScoreInit]
NoCall == [called |-> FALSE, depth |-> 0, searched |-> 0, banned |-> NoMove,
           candidates |-> << >>, result |-> NoMove]

NewGame ==
    [board |-> DefaultBoard, selected_square |-> -1, ai_moved |-> FALSE,
     difficulty |-> "Medium", last_move |-> NoMove,
     captured_white |-> << >>, captured_black |-> << >>]

AppInit ==
    /\ state = [tag |-> "Menu", from |-> -1, to |-> -1]
    /\ game = NewGame
    /\ history = << >>
    /\ ai_call = NoCall

SearchIdle ==
    /\ pc = "idle"
    /\ moves = << >>
    /\ idx = 0
    /\ best = NoBest
    /\ elapsed = 0
    /\ result = NoMove
    /\ probe = NoProbe

(***************************************************************************)
(* The search, one root candidate per step.                                *)
(***************************************************************************)
Init ==
    /\ board \in Family
    /\ depth \in 1..MaxDepth
    /\ SearchIdle
    /\ AppInit

\* choose_best_move_ab is entered: the legal moves are collected and sorted.
Call ==
    /\ pc = "idle"
    /\ IF new_legal(board) = << >>
       THEN /\ pc' = "done"
            /\ result' = NoMove
            /\ UNCHANGED <<moves, idx, best>>
       ELSE /\ pc' = "root"
            /\ moves' = RootCandidates(board)
            /\ idx' = 1
            /\ best' = NoBest
            /\ UNCHANGED result
    /\ elapsed' = 0
    /\ UNCHANGED <<board, depth, probe>>
    /\ UNCHANGED appVars

\* One iteration of the root loop; the subtree search takes some time.
RootStep ==
    /\ pc = "root"
    /\ idx <= Len(moves)
    /\ best' = Adopt(best, moves[idx], RootScore(board, depth, moves[idx]))
    /\ idx' = idx + 1
    /\ \E dt \in {0, TIME_LIMIT_MS} : elapsed' = IF elapsed + dt >= TIME_LIMIT_MS
                                                  THEN TIME_LIMIT_MS ELSE elapsed + dt
    /\ UNCHANGED <<board, depth, pc, moves, result, probe>>
    /\ UNCHANGED appVars

\* The loop is over: best_move is returned.
Return ==
    /\ pc = "root"
    /\ idx > Len(moves)
    /\ pc' = "done"
    /\ result' = best.move
    /\ UNCHANGED <<board, depth, moves, idx, best, elapsed, probe>>
    /\ UNCHANGED appVars

ProbeNegamax ==
    /\ pc = "idle"
    /\ \E d \in 0..MaxProbeDepth, w \in Windows, c \in Signs :
         probe' = [fn |-> "negamax_ab", depth |-> d, alpha |-> w[1], beta |-> w[2],
                   color |-> c, value |-> negamax_ab(board, d, w[1], w[2], c)]
    /\ pc' = "probed"
    /\ UNCHANGED <<board, depth, moves, idx, best, elapsed, result>>
    /\ UNCHANGED appVars

ProbeQuiescence ==
    /\ pc = "idle"
    /\ \E w \in Windows, c \in Signs :
         probe' = [fn |-> "quiescence_search", depth |-> 0, alpha |-> w[1], beta |-> w[2],
                   color |-> c, value |-> quiescence_search(board, w[1], w[2], c)]
    /\ pc' = "probed"
    /\ UNCHANGED <<board, depth, moves, idx, best, elapsed, result>>
    /\ UNCHANGED appVars

ProbeStandPat ==
    /\ pc = "idle"
    /\ \E c \in Signs :
         probe' = [fn |-> "stand_pat", depth |-> 0, alpha |-> 0, beta |-> 0,
                   color |-> c, value |-> stand_pat(board, c)]
    /\ pc' = "probed"
    /\ UNCHANGED <<board, depth, moves, idx, best, elapsed, result>>
    /\ UNCHANGED appVars

Next == Call \/ RootStep \/ Return \/ ProbeNegamax \/ ProbeQuiescence \/ ProbeStandPat

Spec == Init /\ [][Next]_vars

(***************************************************************************)
(* The evaluator alone: stand_pat on piece placements (the initial         *)
(* position, the search positions, and up to MaxPlaced pieces of any kind  *)
(* and colour on the squares of the c-, e- and g-files).                   *)
(***************************************************************************)
MaxPlaced == 1
Kinds == {"Pawn", "Knight", "Bishop", "Rook", "Queen", "King"}
EvalSquares == { sq \in Squares : get_file(sq) \in {FILE_C, 4, FILE_G} }
RECURSIVE PlacedUpTo(_)
PlacedUpTo(n) ==
    IF n = 0 THEN { {} }
    ELSE PlacedUpTo(n - 1) \cup
         UNION { { ps \cup {p} :
                     p \in { q \in Kinds \X Colors \X EvalSquares : \A r \in ps : r[3] # q[3] } } :
                 ps \in PlacedUpTo(n - 1) }
EvalBoards ==
    {DefaultBoard} \cup Family \cup { Position(ps, "White") : ps \in PlacedUpTo(MaxPlaced) }

InitEval ==
    /\ board \in EvalBoards
    /\ depth = 1
    /\ SearchIdle
    /\ AppInit

SpecEval == InitEval /\ [][ProbeStandPat]_vars

\* The colour-and-square mirror of a placement: colours swapped, rank r to 7 - r.
MirrorSquare(sq) == make_square(7 - get_rank(sq), get_file(sq))
mirror(b) ==
    [piece |-> [sq \in Squares |-> b.piece[MirrorSquare(sq)]],
     color |-> [sq \in Squares |-> IF b.color[MirrorSquare(sq)] = "None" THEN "None"
                                   ELSE Opp(b.color[MirrorSquare(sq)])],
     king  |-> [c \in Colors |-> IF b.king[Opp(c)] = -1 THEN -1 ELSE MirrorSquare(b.king[Opp(c)])],
     stm   |-> b.stm]

(***************************************************************************)
(* The search followed call by call: one root candidate of a               *)
(* choose_best_move_ab call, or one quiescence_search call, on positions   *)
(* of kings, knights and pawns, to a depth at which cutoffs occur below    *)
(* the root.                                                               *)
(***************************************************************************)
MaxTraceDepth == 3

TraceSetups ==
    { s \in Setups : \A p \in s[1] : p[1] \in {"King", "Knight", "Pawn"} }
      \cup { \* a capture, and a promotion that gives check without capturing
             << {WK(0), BK(16), <<"Pawn", "Black", 14>>, <<"Knight", "White", 18>>,
                 <<"Pawn", "White", 25>>}, "Black" >>,
             \* a capture answered by a recapture
             << {WK(0), BK(60), <<"Pawn", "White", 24>>, <<"Pawn", "Black", 33>>,
                 <<"Pawn", "Black", 42>>}, "White" >> }
TraceFamily == { Position(s[1], s[2]) : s \in TraceSetups }

InitTrace ==
    /\ board \in TraceFamily
    /\ depth \in 1..MaxTraceDepth
    /\ SearchIdle
    /\ AppInit

\* choose_best_move_ab sorts the legal moves and searches its candidate number i.
TraceRoot ==
    /\ pc = "idle"
    /\ new_legal(board) # << >>
    /\ moves' = RootCandidates(board)
    /\ \E i \in 1..Len(RootCandidates(board)) :
         /\ idx' = i
         /\ probe' = [fn |-> "choose_best_move_ab", depth |-> depth,
                      alpha |-> RootAlpha, beta |-> RootBeta, color |-> SideSign(board),
                      value |-> 0, log |-> RootTrace(board, depth, RootCandidates(board)[i])]
    /\ pc' = "traced"
    /\ UNCHANGED <<board, depth, best, elapsed, result>>
    /\ UNCHANGED appVars

\* One quiescence_search call.
TraceQuiescence ==
    /\ pc = "idle"
    /\ \E w \in Windows, c \in Signs :
         probe' = [fn |-> "quiescence_search", depth |-> 0, alpha |-> w[1], beta |-> w[2],
                   color |-> c, value |-> quiescence_search(board, w[1], w[2], c),
                   log |-> quiescence_trace(board, w[1], w[2], c)]
    /\ pc' = "traced"
    /\ UNCHANGED <<board, depth, moves, idx, best, elapsed, result>>
    /\ UNCHANGED appVars

NextTrace == TraceRoot \/ TraceQuiescence

SpecTrace == InitTrace /\ [][NextTrace]_vars

(***************************************************************************)
(* The game loop: run_app, one action per frame and per GameState.  The    *)
(* user's input of a frame is drawn from a few keys, buttons and squares.  *)
(* run_app asks for a search of MAX_DEPTH plies; the model carries the     *)
(* search out to at most DepthCap plies and records the depth asked for.   *)
(***************************************************************************)
MAX_DEPTH == 5
DepthCap == 1
MaxPlies == 4
MaxCaptured == 2

ClickSquares == {8, 9, 16, 58, 59}
PromoClicks == {"Queen"}
Difficulties == {"Easy", "Medium", "Hard"}

GameStateOf(tag) == [tag |-> tag, from |-> -1, to |-> -1]
Promotion(from, to) == [tag |-> "Promotion", from |-> from, to |-> to]
Frame(st, g, h, call) == [state |-> st, game |-> g, history |-> h, ai_call |-> call]
Reverse(mv) == ChessMove(mv.dst, mv.src, mv.promo)
SearchDepth(d) == IF d <= DepthCap THEN d ELSE DepthCap

\* The selection state machine of a click on a board square.
handle_click(g, sq) ==
    LET own == piece_on(g.board, sq) # "None" /\ color_on(g.board, sq) = side_to_move(g.board)
    IN  IF g.selected_square # -1
        THEN IF own
             THEN [game |-> [g EXCEPT !.selected_square = sq], from |-> -1, to |-> -1]
             ELSE [game |-> [g EXCEPT !.selected_square = -1],
                   from |-> g.selected_square, to |-> sq]
        ELSE IF own
             THEN [game |-> [g EXCEPT !.selected_square = sq], from |-> -1, to |-> -1]
             ELSE [game |-> g, from |-> -1, to |-> -1]

\* The piece on the destination goes to the list of the side that loses it.
push_captured(g, dst) ==
    LET captured == piece_on(g.board, dst)
    IN  IF captured = "None" THEN g
        ELSE IF side_to_move(g.board) = "White"
             THEN [g EXCEPT !.captured_black = Append(@, captured)]
             ELSE [g EXCEPT !.captured_white = Append(@, captured)]

\* A move is applied but never enters the history.
player_move_unrecorded(f, mv) ==
    [f EXCEPT !.game = [push_captured(f.game, mv.dst) EXCEPT
                            !.board = make_move_new(f.game.board, mv),
                            !.last_move = mv,
                            !.ai_moved = FALSE]]

\* The player's legal move is applied.
player_move(f, mv) ==
    [f EXCEPT !.game = [push_captured(f.game, mv.dst) EXCEPT
                            !.board = make_move_new(f.game.board, mv),
                            !.last_move = mv,
                            !.ai_moved = FALSE],
              !.history = Append(f.history, mv)]

\* The engine's move is applied.
ai_move(f, best_mv) ==
    [f EXCEPT !.game = [push_captured(f.game, best_mv.dst) EXCEPT
                            !.board = make_move_new(f.game.board, best_mv),
                            !.last_move = best_mv,
                            !.ai_moved = TRUE],
              !.history = Append(f.history, best_mv)]

\* A left click on a board square in the Playing state.
player_click(f, sq) ==
    LET hc == handle_click(f.game, sq)
        f1 == [f EXCEPT !.game = hc.game]
        pc_from == piece_on(f1.game.board, hc.from)
        mv == ChessMove(hc.from, hc.to, "None")
    IN  IF hc.from = -1 THEN f1
        ELSE IF pc_from # "None"
             THEN IF pc_from = "Pawn" /\ get_rank(hc.to) \in {0, 7}
                  THEN [f1 EXCEPT !.state = Promotion(hc.from, hc.to)]
                  ELSE IF legal(f1.game.board, mv) THEN player_move(f1, mv) ELSE f1
             ELSE [f1 EXCEPT !.game = [f1.game EXCEPT !.selected_square = -1]]

\* The reverse of the last move of the history (computed, then never read).
banned(h) == IF h = << >> THEN NoMove ELSE Reverse(h[Len(h)])

\* The engine's turn: Black to move and the engine has not moved yet.
ai_turn(f) ==
    IF side_to_move(f.game.board) = "Black" /\ ~f.game.ai_moved
    THEN IF status(f.game.board) # "Ongoing"
         THEN [f EXCEPT !.state = GameStateOf("GameOver")]
         ELSE LET depth_arg == MAX_DEPTH
                  best_mv == choose_best_move_ab(f.game.board, SearchDepth(depth_arg))
                  f1 == [f EXCEPT !.ai_call =
                            [called |-> TRUE, depth |-> depth_arg,
                             searched |-> SearchDepth(depth_arg),
                             banned |-> banned(f.history),
                             candidates |-> RootCandidates(f.game.board),
                             result |-> best_mv]]
              IN  IF best_mv # NoMove THEN ai_move(f1, best_mv) ELSE f1
    ELSE f

\* The end of a Playing frame: a finished game goes to GameOver.
final_status(f) ==
    IF status(f.game.board) # "Ongoing"
    THEN [f EXCEPT !.state = GameStateOf("GameOver")]
    ELSE f


\* The board after the moves of a history, from the initial position.
RECURSIVE Replay(_, _, _)
Replay(b, h, i) == IF i > Len(h) THEN b ELSE Replay(make_move_new(b, h[i]), h, i + 1)

RECURSIVE RebuildLoop(_, _, _, _, _)
RebuildLoop(b, h, i, cw, cb) ==
    IF i > Len(h) THEN [captured_white |-> cw, captured_black |-> cb]
    ELSE LET captured == piece_on(b, h[i].dst)
             white == side_to_move(b) = "White"
         IN  RebuildLoop(make_move_new(b, h[i]), h, i + 1,
                         IF captured # "None" /\ ~white THEN Append(cw, captured) ELSE cw,
                         IF captured # "None" /\ white THEN Append(cb, captured) ELSE cb)

rebuild_captured_pieces(h) == RebuildLoop(DefaultBoard, h, 1, << >>, << >>)

\* Pause menu, "Restart".
restart(f) ==
    [f EXCEPT !.game = [f.game EXCEPT !.board = DefaultBoard,
                                      !.selected_square = -1,
                                      !.ai_moved = FALSE,
                                      !.last_move = NoMove,
                                      !.captured_white = << >>,
                                      !.captured_black = << >>],
              !.history = << >>,
              !.state = GameStateOf("Playing")]

\* Two pops and nothing rebuilt.
undo_pops_only(f) ==
    [f EXCEPT !.history = SubSeq(f.history, 1, Len(f.history) - 2),
              !.state = GameStateOf("Playing")]

\* Pause menu, "Undo": two pops; the game is rebuilt only if both succeed.
undo(f) ==
    LET n == Len(f.history)
        h2 == SubSeq(f.history, 1, n - 2)
        rebuilt == rebuild_captured_pieces(h2)
    IN  IF n = 0 THEN [f EXCEPT !.state = GameStateOf("Playing")]
        ELSE IF n = 1 THEN [f EXCEPT !.history = << >>, !.state = GameStateOf("Playing")]
        ELSE [f EXCEPT !.game = [f.game EXCEPT
                                    !.board = Replay(DefaultBoard, h2, 1),
                                    !.selected_square = -1,
                                    !.ai_moved = FALSE,
                                    !.last_move = IF h2 = << >> THEN NoMove ELSE h2[Len(h2)],
                                    !.captured_white = rebuilt.captured_white,
                                    !.captured_black = rebuilt.captured_black],
                      !.history = h2,
                      !.state = GameStateOf("Playing")]

\* Game-over screen, "Restart".
game_over_restart(f) ==
    [f EXCEPT !.game = [f.game EXCEPT !.board = DefaultBoard,
                                      !.selected_square = -1,
                                      !.ai_moved = FALSE],
              !.history = << >>,
              !.state = GameStateOf("Playing")]

\* A click on a promotion piece: the move is made as given.
promote(f, piece) ==
    LET mv == ChessMove(f.state.from, f.state.to, piece)
    IN  [f EXCEPT !.game = [f.game EXCEPT !.board = make_move_new(f.game.board, mv),
                                          !.ai_moved = FALSE],
                  !.history = Append(f.history, mv),
                  !.state = GameStateOf("Playing")]

InitApp ==
    /\ board = DefaultBoard
    /\ depth = 1
    /\ SearchIdle
    /\ AppInit

\* A board that has lost a king is outside what the crate defines: the model
\* stops there.
KingLost(b) ==
    \E c \in Colors : piece_on(b, king_square(b, c)) # "King" \/ color_on(b, king_square(b, c)) # c
Settle(f) == IF KingLost(f.game.board) THEN [f EXCEPT !.state = GameStateOf("KingLost")] ELSE f

Becomes(f) ==
    /\ state' = f.state
    /\ game' = f.game
    /\ history' = f.history
    /\ ai_call' = f.ai_call
    /\ UNCHANGED searchVars

\* A frame in the Menu state: the keys 1, 2, 3 select the difficulty, Enter starts.
MenuFrame ==
    /\ state.tag = "Menu"
    /\ \E key \in {"none", "Easy", "Medium", "Hard"}, enter \in BOOLEAN :
         Becomes([Frame(state, game, history, NoCall) EXCEPT
                     !.game = [game EXCEPT !.difficulty =
                                   IF key = "none" THEN game.difficulty ELSE key],
                     !.state = IF enter THEN GameStateOf("Playing") ELSE state])

PlayingInputs ==
    { [kind |-> k, sq |-> -1] : k \in {"none", "pause_button", "key_p"} }
      \cup { [kind |-> "click", sq |-> sq] : sq \in ClickSquares }

\* A frame in the Playing state: the click, the pause key, the engine's reply,
\* the pause button again, the game-over test.
PlayingFrame ==
    /\ state.tag = "Playing"
    /\ \E input \in PlayingInputs :
         /\ input.kind = "click" =>
              /\ Len(history) + 2 <= MaxPlies
              /\ Len(game.captured_white) + Len(game.captured_black) < MaxCaptured
         /\ LET f0 == Frame(state, game, history, NoCall)
                paused == GameStateOf("Paused")
                f1 == IF input.kind = "pause_button" THEN [f0 EXCEPT !.state = paused]
                      ELSE IF input.kind = "click" THEN player_click(f0, input.sq)
                      ELSE f0
                f2 == IF input.kind = "key_p" THEN [f1 EXCEPT !.state = paused] ELSE f1
                f3 == ai_turn(f2)
                f4 == IF input.kind = "pause_button" THEN [f3 EXCEPT !.state = paused] ELSE f3
            IN  Becomes(Settle(final_status(f4)))

\* A frame in the Promotion state: a click on one of the four pieces, or none.
PromotionFrame ==
    /\ state.tag = "Promotion"
    /\ \E piece \in PromoClicks \cup {"None"} :
         Becomes(IF piece = "None" THEN Frame(state, game, history, NoCall)
                 ELSE Settle(promote(Frame(state, game, history, NoCall), piece)))

\* A frame in the Paused state: a click on Resume, Restart, Undo or Exit, or none.
PausedFrame ==
    /\ state.tag = "Paused"
    /\ \E button \in {"none", "Resume", "Restart", "Undo", "Exit"} :
         LET f == Frame(state, game, history, NoCall)
         IN  Becomes(CASE button = "none" -> f
                       [] button = "Resume" -> [f EXCEPT !.state = GameStateOf("Playing")]
                       [] button = "Restart" -> restart(f)
                       [] button = "Undo" -> undo(f)
                       [] button = "Exit" -> [f EXCEPT !.state = GameStateOf("Exited")])

\* A frame in the GameOver state: a click on Restart or Exit, or none.
GameOverFrame ==
    /\ state.tag = "GameOver"
    /\ \E button \in {"none", "Restart", "Exit"} :
         LET f == Frame(state, game, history, NoCall)
         IN  Becomes(CASE button = "none" -> f
                       [] button = "Restart" -> game_over_restart(f)
                       [] button = "Exit" -> [f EXCEPT !.state = GameStateOf("Exited")])

NextApp == MenuFrame \/ PlayingFrame \/ PromotionFrame \/ PausedFrame \/ GameOverFrame

SpecApp == InitApp /\ [][NextApp]_vars

(***************************************************************************)
(* Properties.                                                             *)
(***************************************************************************)
SearchProbe == probe.fn \in {"negamax_ab", "quiescence_search"}
LegalSet(b) == { new_legal(b)[i] : i \in 1..Len(new_legal(b)) }
Quiet(b) == \A mv \in LegalSet(b) : ~is_noisy(b, mv)

\* C1: on a checkmate position negamax_ab and quiescence_search, called with the
\* sign of the side to move, return -1,000,000: the worst outcome for the mover.
C1_MateIsWorstForMover ==
    (SearchProbe /\ status(board) = "Checkmate" /\ probe.color = SideSign(board))
        => probe.value = -MATE

\* C2: at depth 0, on an ongoing quiet position whose White-positive static
\* score is W and with alpha < color * W < beta, negamax_ab returns color * W.
C2_HorizonValueIsMoversView ==
    LET cw == Times(probe.color, StaticScore(board, 0)) IN
    (/\ probe.fn = "negamax_ab" /\ probe.depth = 0
     /\ probe.color = SideSign(board)
     /\ status(board) = "Ongoing" /\ Quiet(board)
     /\ probe.alpha < cw /\ cw < probe.beta)
        => probe.value = cw

\* C3: choose_best_move_ab returns the root move of the unpruned search.
C3_SameMoveAsUnpruned ==
    pc = "done" => result = choose_best_move_full(board, depth)

\* C4: choose_best_move_ab returns None exactly when there is no legal move, and
\* otherwise one of the legal moves.
C4_NoneIffNoLegalMove ==
    pc = "done" =>
        /\ (result = NoMove) <=> (new_legal(board) = << >>)
        /\ result # NoMove => result \in LegalSet(board)

C4_Witness ==
    pc = "done" /\ result # NoMove /\ Len(new_legal(board)) >= 2 /\ depth >= 2

C6_DeadlineStopsRootLoop ==
    [][(pc = "root" /\ idx > 1 /\ elapsed >= TIME_LIMIT_MS) => idx' = idx]_vars

\* C7: every engine move is searched at the depth of the selected difficulty:
\* Easy 2, Medium the base depth, Hard the base depth + 2.
DifficultyDepth(d) ==
    CASE d = "Easy" -> 2
      [] d = "Medium" -> MAX_DEPTH
      [] d = "Hard" -> MAX_DEPTH + 2
C7_DifficultySetsDepth ==
    ai_call.called => ai_call.depth = DifficultyDepth(game.difficulty)

\* C8: the leaf score counts material (a queen is worth 900 to its side), and at
\* depth >= 2 the move chosen captures a queen that can be taken for nothing.
QUEEN_VALUE == 900
RemovePiece(b, sq) ==
    [b EXCEPT !.piece = [b.piece EXCEPT ![sq] = "None"],
              !.color = [b.color EXCEPT ![sq] = "None"]]
QueenSquares(b) == { sq \in Squares : piece_on(b, sq) = "Queen" }
FreeQueenCaptures(b) ==
    { mv \in LegalSet(b) :
        /\ piece_on(b, mv.dst) = "Queen"
        /\ ~Attacked(make_move_new(b, mv), mv.dst, Opp(side_to_move(b))) }

C8_MaterialDecides ==
    /\ probe.fn = "stand_pat" =>
         \A sq \in QueenSquares(board) :
            StaticScore(board, 0) - StaticScore(RemovePiece(board, sq), 0)
              = (IF color_on(board, sq) = "White" THEN QUEEN_VALUE ELSE -QUEEN_VALUE)
    /\ (pc = "done" /\ depth >= 2 /\ FreeQueenCaptures(board) # {})
         => result \in FreeQueenCaptures(board)

\* C9: on a terminal position that is not a checkmate negamax_ab and
\* quiescence_search return 0, whatever the depth, the window and the sign.
C9_DrawScoresZero ==
    (SearchProbe /\ status(board) \notin {"Ongoing", "Checkmate"}) => probe.value = 0

C9_Witness ==
    /\ SearchProbe /\ status(board) = "Stalemate"
    /\ probe.alpha > 0 /\ probe.color = -1 /\ probe.depth = MaxProbeDepth

\* C10: stand_pat is antisymmetric under the colour-and-square mirror, and the
\* initial position evaluates to 0.
C10_EvaluationSymmetry ==
    probe.fn = "stand_pat" =>
        /\ probe.value = Neg(stand_pat(mirror(board), probe.color))
        /\ board = DefaultBoard => probe.value = 0

C10_Witness ==
    /\ probe.fn = "stand_pat" /\ probe.value < 0 /\ probe.color = 1
    /\ \E sq \in Squares : piece_on(board, sq) = "Rook" /\ get_rank(sq) = 6

Traced == pc = "traced"
RootTraced == Traced /\ probe.fn = "choose_best_move_ab"
QuiescenceTraced == Traced /\ probe.fn = "quiescence_search"
PositionOf(seq, mv) == CHOOSE i \in 1..Len(seq) : seq[i] = mv
Plain(b, mv) == ~is_capture(b, mv) /\ ~is_promotion(mv) /\ ~gives_check(b, mv)

\* C11: in the ordered move list every capture comes before every non-capture,
\* every promotion before every move that is neither capture nor promotion,
\* every checking move before every move that is none of the three, and the
\* moves that are none of the three keep their enumeration order.
C11_OrderFollowsPriorityClasses ==
    RootTraced =>
        \A i, j \in 1..Len(moves) :
            /\ (is_capture(board, moves[i]) /\ ~is_capture(board, moves[j])) => i < j
            /\ (is_promotion(moves[i]) /\ ~is_noisy(board, moves[j])) => i < j
            /\ (gives_check(board, moves[i]) /\ Plain(board, moves[j])) => i < j
            /\ (Plain(board, moves[i]) /\ Plain(board, moves[j]) /\ i < j)
                   => PositionOf(new_legal(board), moves[i]) < PositionOf(new_legal(board), moves[j])

\* C12: a root candidate that captures, promotes or gives check is searched with
\* the depth unchanged, every other candidate with depth - 1.
ExtendedDepth(b, d, mv) == IF Plain(b, mv) THEN d - 1 ELSE d
C12_NoisyMovesAreExtended ==
    RootTraced =>
        \A i \in 1..Len(moves) :
            ChildDepth(board, depth, moves[i]) = ExtendedDepth(board, depth, moves[i])

\* C13: every negamax_ab and quiescence_search call reachable from
\* choose_best_move_ab is entered with alpha < beta: alpha >= beta arises only
\* at the cutoff, after which no further sibling is searched.
C13_WindowIsOpenAtEveryCall == RootTraced => probe.log.window_ok

C13_Witness == RootTraced /\ depth = 3 /\ probe.log.cutoffs /\ probe.log.window_ok

C15_NoNegationOverflows == RootTraced => probe.log.range_ok

C15_Witness ==
    /\ RootTraced /\ depth = 3 /\ probe.log.range_ok
    /\ probe.log.qs_plies >= 1
    /\ probe.log.value # 0

\* The pieces on the board, the pawns counted twice: every capture and every
\* promotion makes it smaller.
Measure(b) ==
    Cardinality({sq \in Squares : b.piece[sq] # "None"})
        + Cardinality({sq \in Squares : b.piece[sq] = "Pawn"})

\* C16: the depth passed to negamax_ab is never negative and decreases by
\* exactly 1 per ply down to the depth-0 horizon, and every quiescence
\* recursion follows a capture or a promotion, so that every line is finite.
C16_SearchTerminates ==
    Traced =>
        /\ probe.log.depth_ok
        /\ probe.log.noisy_only
        /\ probe.log.qs_plies <= 1 + Measure(board)

C16_Witness ==
    /\ RootTraced /\ depth = 3
    /\ probe.log.depth_ok
    /\ probe.log.qs_plies >= 3

\* C17: after every frame the board is the initial position with the moves of
\* the history applied in order; in particular Undo never leaves a history
\* from which the board was not rebuilt.
C17_BoardIsHistoryReplayed == game.board = Replay(DefaultBoard, history, 1)

\* Only Undo leaves White to move after two plies with ai_moved false.
C17_Witness ==
    /\ state.tag = "Playing" /\ Len(history) = 2
    /\ ~game.ai_moved /\ side_to_move(game.board) = "White"
    /\ game.board = Replay(DefaultBoard, history, 1)
    /\ game.board # DefaultBoard

\* C18: after every frame captured_white and captured_black are the lists
\* rebuild_captured_pieces computes from the history.
C18_CapturedListsMatchHistory ==
    /\ game.captured_white = rebuild_captured_pieces(history).captured_white
    /\ game.captured_black = rebuild_captured_pieces(history).captured_black

\* The position the i-th move of the history was applied to.
PositionBefore(i) == Replay(DefaultBoard, SubSeq(history, 1, i - 1), 1)

\* C19: every move of the history (the player's move, the promotion choice,
\* the engine's reply) is legal in the position it was applied to.
C19_HistoryMovesAreLegal ==
    \A i \in 1..Len(history) : legal(PositionBefore(i), history[i])

====
